---- MODULE Spec2Model ----
(***************************************************************************)
(* Model of bamtools split (src/src/toolkit/bamtools_split.cpp).           *)
(*                                                                         *)
(* One run of SplitTool::Run over one input file.  The input records, the  *)
(* command-line settings and the environment's answers (whether the source *)
(* opens, whether each output file can be created) are drawn from small    *)
(* sets.  Strings are sequences of one-character strings, so that          *)
(* concatenation, rfind and substr are what the code computes.             *)
(*                                                                         *)
(* A record is identified by its position in the input (1..Len(records)).  *)
(* A writer's "saved" field is the sequence of positions handed to         *)
(* BamWriter::SaveAlignment on that writer, in call order.                 *)
(***************************************************************************)
EXTENDS Integers, Sequences, FiniteSets, TLC

VARIABLES
    settings,              \* SplitSettings, filled by the option parser
    source,                \* the input BAM file as the environment holds it
    pc,                    \* position of the single thread of control
    m_outputFilenameStub,  \* SplitToolPrivate::m_outputFilenameStub
    m_header,              \* SplitToolPrivate::m_header
    m_references,          \* SplitToolPrivate::m_references
    readerOpen,            \* m_reader has an open file
    readerPos,             \* number of records m_reader has produced
    readerCloses,          \* number of m_reader.Close() calls
    writers,               \* every BamWriter opened, in order of creation
    outputFiles,           \* the routine's map: key -> index into writers
    visited,               \* keys the clean-up loop has passed
    result,                \* value returned by SplitToolPrivate::Run
    exitStatus             \* value returned by SplitTool::Run

vars == <<settings, source, pc, m_outputFilenameStub, m_header, m_references,
          readerOpen, readerPos, readerCloses, writers, outputFiles, visited,
          result, exitStatus>>

----------------------------------------------------------------------------
(* Bounds of the model *)

\* longest input, in records
MaxLen == 3
\* number of entries of the reference table of the input
NumRefs == 2
\* longest input of the runs that vary the -in and -stub options
StubMaxLen == 2
\* longest input of the runs whose tags take every storage-class code
DispatchMaxLen == 2

\* tag values an input record may carry (abstract value ids; the same ids
\* stand for the values of every storage class)
TagValues == {1, 2}
\* storage-class codes the input's tags carry: one or two codes of each
\* recognised family and one code ("B") outside them
InputTagTypes == {"i", "C", "f", "Z", "B"}
\* every storage-class code of the four recognised families, and two codes
\* outside them ("B", "d")
AllTagTypes == {"c", "s", "i", "C", "S", "I", "f", "A", "Z", "H", "B", "d"}

----------------------------------------------------------------------------
(* Strings *)

Digits == <<"0", "1", "2", "3", "4", "5", "6", "7", "8", "9">>

RECURSIVE NatText(_)
\* decimal text of a natural number, as operator<< prints it
NatText(n) ==
    IF n < 10 THEN <<Digits[n + 1]>>
    ELSE NatText(n \div 10) \o <<Digits[(n % 10) + 1]>>

\* decimal text of an integer, as operator<< prints it
IntText(n) == IF n < 0 THEN <<"-">> \o NatText(0 - n) ELSE NatText(n)

SPLIT_MAPPED_TOKEN    == <<".", "M", "A", "P", "P", "E", "D">>
SPLIT_UNMAPPED_TOKEN  == <<".", "U", "N", "M", "A", "P", "P", "E", "D">>
SPLIT_PAIRED_TOKEN    == <<".", "P", "A", "I", "R", "E", "D", "_", "E", "N", "D">>
SPLIT_SINGLE_TOKEN    == <<".", "S", "I", "N", "G", "L", "E", "_", "E", "N", "D">>
SPLIT_REFERENCE_TOKEN == <<".", "R", "E", "F", "_">>
TAG_TOKEN             == <<".", "T", "A", "G", "_">>
BAM_EXT               == <<".", "b", "a", "m">>

\* string::npos
npos == -1

\* faulty variant of RFindDot: find(".") in place of rfind("."), the first "."
FindDot(s) ==
    IF \E i \in 1..Len(s) : s[i] = "."
    THEN (CHOOSE i \in 1..Len(s) :
             s[i] = "." /\ \A j \in 1..(i - 1) : s[j] # ".") - 1
    ELSE npos

\* filename.rfind("."): the 0-based index of the last ".", or npos
RFindDot(s) ==
    IF \E i \in 1..Len(s) : s[i] = "."
    THEN (CHOOSE i \in 1..Len(s) :
             s[i] = "." /\ \A j \in (i + 1)..Len(s) : s[j] # ".") - 1
    ELSE npos

\* s.substr(0, n); n = npos keeps the whole string
Substr0(s, n) == IF n = npos THEN s ELSE SubSeq(s, 1, n)

RemoveFilenameExtension(filename) == Substr0(filename, RFindDot(filename))

RECURSIVE ReplaceSpaces(_)
\* the find(" ") / replace loop: every " " becomes "_", nothing else changes
ReplaceSpaces(s) ==
    IF s = <<>> THEN <<>>
    ELSE <<(IF Head(s) = " " THEN "_" ELSE Head(s))>> \o ReplaceSpaces(Tail(s))

\* ctime() texts the clock may give, "Www Mmm dd hh:mm:ss yyyy\n": one of a
\* two-digit day and one of a one-digit day, which ctime pads with a space
CtimeTexts ==
    { <<"S", "a", "t", " ", "J", "u", "n", " ", "1", "2", " ", "1", "0", ":",
        "2", "0", ":", "3", "0", " ", "2", "0", "1", "0", "\n">>,
      <<"S", "a", "t", " ", "J", "u", "n", " ", " ", "5", " ", "1", "0", ":",
        "2", "0", ":", "3", "0", " ", "2", "0", "1", "0", "\n">> }

GetTimestampString(ctimeText) == ReplaceSpaces(ctimeText)

----------------------------------------------------------------------------
(* Settings, records and the input file *)

\* Options::StandardIn()
StandardIn == <<"s", "t", "d", "i", "n">>

\* the tag name given with -tag
TagName == <<"R", "G">>

\* the usual command line: -in <file>, no -stub
InputFileStub ==
    [HasCustomOutputStub |-> FALSE, CustomOutputStub |-> <<>>,
     HasInputFilename |-> TRUE,     InputFilename |-> <<"i", "n", ".", "b", "a", "m">>]

\* stubs given with -stub: one that holds a "." itself
CustomStubs == { <<"o", ".", "x">> }

\* filenames given with -in: one extension, a "." in a directory and none in
\* the file's name, no "." at all, two ".", an absolute path
InputFilenames ==
    { <<"i", "n", ".", "b", "a", "m">>,
      <<"d", ".", "1", "/", "i", "n">>,
      <<"i", "n">>,
      <<"a", ".", "b", ".", "b", "a", "m">>,
      <<"/", "a", "/", "b", "/", "f", "i", "l", "e", ".", "b", "a", "m">> }

\* the -in / -stub combinations of the command line: each option given or
\* not (InputFilename defaults to Options::StandardIn())
StubSettings ==
    { st \in [HasCustomOutputStub : BOOLEAN,
              CustomOutputStub    : CustomStubs \cup {<<>>},
              HasInputFilename    : BOOLEAN,
              InputFilename       : InputFilenames \cup {StandardIn}] :
         /\ st.HasCustomOutputStub <=> st.CustomOutputStub # <<>>
         /\ st.HasInputFilename <=> st.InputFilename # StandardIn }

\* every SplitSettings the option parser can leave behind, the -in / -stub
\* options taken from stubs
SettingsSet(stubs) ==
    { [HasInputFilename     |-> st.HasInputFilename,
       HasCustomOutputStub  |-> st.HasCustomOutputStub,
       IsSplittingMapped    |-> fm,
       IsSplittingPaired    |-> fp,
       IsSplittingReference |-> fr,
       IsSplittingTag       |-> ft,
       CustomOutputStub     |-> st.CustomOutputStub,
       InputFilename        |-> st.InputFilename,
       TagToSplit           |-> IF ft THEN TagName ELSE <<>>] :
         st \in stubs, fm \in BOOLEAN, fp \in BOOLEAN,
         fr \in BOOLEAN, ft \in BOOLEAN }

\* faulty variant of ModeOf: the tests in the opposite order, tag first
ModeOfTagFirst(s) ==
    IF s.IsSplittingTag THEN "tag"
    ELSE IF s.IsSplittingReference THEN "reference"
    ELSE IF s.IsSplittingPaired THEN "paired"
    ELSE IF s.IsSplittingMapped THEN "mapped"
    ELSE "none"

\* the split routine SplitToolPrivate::Run selects
ModeOf(s) ==
    IF s.IsSplittingMapped THEN "mapped"
    ELSE IF s.IsSplittingPaired THEN "paired"
    ELSE IF s.IsSplittingReference THEN "reference"
    ELSE IF s.IsSplittingTag THEN "tag"
    ELSE "none"

NoTag == [has |-> FALSE, type |-> "-", val |-> 0]

Tags == {NoTag} \cup
        { [has |-> TRUE, type |-> t, val |-> v] : t \in InputTagTypes, v \in TagValues }

\* reference ids a record may carry: the table's ids 0..NumRefs-1, -1 (no
\* reference, as unaligned reads carry) and NumRefs (past the table)
RefIds == (-1)..NumRefs

DefaultRecord == [mapped |-> TRUE, paired |-> FALSE, refId |-> 0, tag |-> NoTag]

\* the records of an input split in mode m: the field the mode's routine
\* reads takes every value, the fields it never reads stay at their default
RecordsFor(m) ==
    CASE m = "mapped"    -> { [DefaultRecord EXCEPT !.mapped = b] : b \in BOOLEAN }
      [] m = "paired"    -> { [DefaultRecord EXCEPT !.paired = b] : b \in BOOLEAN }
      [] m = "reference" -> { [DefaultRecord EXCEPT !.refId = r] : r \in RefIds }
      [] m = "tag"       -> { [DefaultRecord EXCEPT !.tag = t] : t \in Tags }
      [] OTHER           -> { DefaultRecord }

SeqsUpTo(S, n) == UNION { [1..k -> S] : k \in 0..n }

HeaderText == <<"@", "H", "D">>

\* RefName of the table's entry i (0-based)
RefNameOf(i) == <<"c", "h", "r">> \o IntText(i + 1)

\* the reference table of the input (1-based sequence of the 0-based vector)
RefTable == [i \in 1..NumRefs |-> RefNameOf(i - 1)]

\* the input files of at most n records of a run in mode m: a file that cannot be opened has no
\* content the run could see
SourcesFor(m, n) ==
    { [opens |-> TRUE, header |-> HeaderText, references |-> RefTable, records |-> rs] :
         rs \in SeqsUpTo(RecordsFor(m), n) }
    \cup
    { [opens |-> FALSE, header |-> <<>>, references |-> <<>>, records |-> <<>>] }

Records == source.records

----------------------------------------------------------------------------
(* The external collaborators: BamReader, BamAlignment, BamWriter *)

\* BamReader::GetNextAlignment: TRUE while a record is left
HasNextAlignment == readerPos < Len(Records)

\* the record GetNextAlignment stores into al (its position in the input)
NextAlignment == readerPos + 1

\* BamAlignment::GetTagType: TRUE and the storage-class code when the tag is there
GetTagType(i) == Records[i].tag.has

TagTypeOf(i) == Records[i].tag.type

\* the family of a storage-class code
FamilyOf(t) ==
    CASE t \in {"c", "s", "i"} -> "Int"
      [] t \in {"C", "S", "I"} -> "UInt"
      [] t = "f"               -> "Real"
      [] t \in {"A", "Z", "H"} -> "String"
      [] OTHER                 -> "other"

\* BamAlignment::GetTag(tag, destination) for a destination of family path:
\* the outcomes it can have on record i.  0 stands for "returned false",
\* v > 0 for "returned true and stored value v".  A tag of the destination's
\* family is read as it is; a tag of another storage class is read through
\* the destination's type, which may fail or give what the tag's bytes say.
GetTagOutcomes(path, i) ==
    IF ~Records[i].tag.has THEN {0}
    ELSE IF FamilyOf(Records[i].tag.type) = path THEN {Records[i].tag.val}
    ELSE {0, Records[i].tag.val}

\* the float a tag of value id v holds when it is read as a float, in units
\* of 10^-7: 0.1234567 and 0.1234568, two floats that differ in the seventh
\* significant digit
FloatOf(v) == 1234566 + v

RECURSIVE StripZeros(_)
\* a digit text without its trailing zeros
StripZeros(s) ==
    IF s # <<>> /\ s[Len(s)] = "0" THEN StripZeros(SubSeq(s, 1, Len(s) - 1)) ELSE s

\* operator<< of a float 0.1 <= m * 10^-7 < 1 on a stream of default
\* precision: six significant digits, rounded, trailing zeros dropped
FloatText(m) ==
    LET r == (m + 5) \div 10 IN
    IF r >= 1000000 THEN <<"1">> ELSE <<"0", ".">> \o StripZeros(NatText(r))

\* operator<< of a tag value of family path
ValueText(path, v) == IF path = "Real" THEN FloatText(FloatOf(v)) ELSE IntText(v)

\* a BamWriter after Open(filename, header, references); openOk tells whether
\* the destination could be created
NewWriter(key, filename, header, references, ok) ==
    [key |-> key, filename |-> filename, header |-> header,
     references |-> references, openOk |-> ok, saved |-> <<>>, closes |-> 0]

\* BamWriter::SaveAlignment(al) on writer w
SaveAlignment(ws, w, i) == [ws EXCEPT ![w].saved = Append(@, i)]

\* BamWriter::Close() on writer w
CloseWriter(ws, w) == [ws EXCEPT ![w].closes = @ + 1]

----------------------------------------------------------------------------
(* SplitToolPrivate: helpers *)

\* DetermineOutputFilenameStub; ctimeText is what ctime() gives at the call
DetermineOutputFilenameStub(s, ctimeText) ==
    IF s.HasCustomOutputStub THEN s.CustomOutputStub
    ELSE IF s.HasInputFilename THEN RemoveFilenameExtension(s.InputFilename)
    ELSE GetTimestampString(ctimeText)

\* outputFiles.end()
End == 0

\* faulty variant of Find: the lookup never finds the key
FindNothing(of, key) == End

\* outputFiles.find(key): the writer stored under key, or End
Find(of, key) == IF key \in DOMAIN of THEN of[key] ELSE End

\* outputFiles.insert(make_pair(key, w)): an existing entry is kept
Insert(of, key, w) == IF key \in DOMAIN of THEN of ELSE of @@ (key :> w)

\* m_references.at(id): TRUE when id is an index of the table (at() throws
\* std::out_of_range otherwise; a negative id converts to a huge size_t)
RefInTable(refs, id) == 0 <= id /\ id < Len(refs)

MappedFilename(stub, isMapped) ==
    stub \o (IF isMapped THEN SPLIT_MAPPED_TOKEN ELSE SPLIT_UNMAPPED_TOKEN) \o BAM_EXT

\* faulty variant of PairedFilename: the tokens of SplitMapped left in place
PairedFilenameWithMappedTokens(stub, isPaired) ==
    stub \o (IF isPaired THEN SPLIT_MAPPED_TOKEN ELSE SPLIT_UNMAPPED_TOKEN) \o BAM_EXT

PairedFilename(stub, isPaired) ==
    stub \o (IF isPaired THEN SPLIT_PAIRED_TOKEN ELSE SPLIT_SINGLE_TOKEN) \o BAM_EXT

ReferenceFilename(stub, refs, id) ==
    stub \o SPLIT_REFERENCE_TOKEN \o refs[id + 1] \o BAM_EXT

TagFilename(stub, tag, valueText) ==
    stub \o TAG_TOKEN \o tag \o <<"_">> \o valueText \o BAM_EXT

\* faulty variant of Route: the new writer's block saves the record too (as
\* the start of the typed tag routines does), and the common save follows
RouteSavingTwiceOnOpen(ws, of, key, filename, header, refs, ok, i) ==
    LET it == Find(of, key) IN
    IF it = End
    THEN LET ws2 == Append(ws, NewWriter(key, filename, header, refs, ok))
             w   == Len(ws2)
         IN  [writers |-> SaveAlignment(SaveAlignment(ws2, w, i), w, i),
              outputFiles |-> Insert(of, key, w)]
    ELSE [writers |-> SaveAlignment(ws, it, i), outputFiles |-> of]

\* faulty variant of Route: the record is saved only in the new writer's
\* block, so a record whose key already has a writer is dropped
RouteSavingOnOpenOnly(ws, of, key, filename, header, refs, ok, i) ==
    LET it == Find(of, key) IN
    IF it = End
    THEN LET ws2 == Append(ws, NewWriter(key, filename, header, refs, ok))
             w   == Len(ws2)
         IN  [writers |-> SaveAlignment(ws2, w, i), outputFiles |-> Insert(of, key, w)]
    ELSE [writers |-> ws, outputFiles |-> of]

\* faulty variant of Route: the new writer is opened with an empty header
\* text and an empty reference table
RouteOpeningWithoutHeader(ws, of, key, filename, header, refs, ok, i) ==
    LET it == Find(of, key) IN
    IF it = End
    THEN LET ws2 == Append(ws, NewWriter(key, filename, <<>>, <<>>, ok))
             w   == Len(ws2)
         IN  [writers |-> SaveAlignment(ws2, w, i), outputFiles |-> Insert(of, key, w)]
    ELSE [writers |-> SaveAlignment(ws, it, i), outputFiles |-> of]

\* the body of a routing loop after the key is known: look the key up, open
\* and store a new writer when it is not there, save the record
Route(ws, of, key, filename, header, refs, ok, i) ==
    LET it == Find(of, key) IN
    IF it = End
    THEN LET ws2 == Append(ws, NewWriter(key, filename, header, refs, ok))
             w   == Len(ws2)
         IN  [writers |-> SaveAlignment(ws2, w, i), outputFiles |-> Insert(of, key, w)]
    ELSE [writers |-> SaveAlignment(ws, it, i), outputFiles |-> of]

\* faulty variant of FirstAlignment: the writer is opened and stored, the
\* alignment handed over by SplitTag is not saved
FirstAlignmentNotSaved(ws, of, key, filename, header, refs, ok, i) ==
    LET ws2 == Append(ws, NewWriter(key, filename, header, refs, ok))
        w   == Len(ws2)
    IN  [writers |-> ws2, outputFiles |-> Insert(of, key, w)]

\* the start of a typed tag routine when the first alignment's value was
\* read: open a writer, save the alignment, store the writer
FirstAlignment(ws, of, key, filename, header, refs, ok, i) ==
    LET ws2 == Append(ws, NewWriter(key, filename, header, refs, ok))
        w   == Len(ws2)
    IN  [writers |-> SaveAlignment(ws2, w, i), outputFiles |-> Insert(of, key, w)]

\* faulty variant of SplitTagDispatch: the labels 'S' and 's' exchanged
SplitTagDispatchSwappingShorts(tagType) ==
    CASE tagType \in {"c", "S", "i"} -> "SplitTag_Int"
      [] tagType \in {"C", "s", "I"} -> "SplitTag_UInt"
      [] tagType = "f"               -> "SplitTag_Real"
      [] tagType \in {"A", "Z", "H"} -> "SplitTag_String"
      [] OTHER                       -> "unknown"

\* faulty variant of SplitTagDispatch: no default label, an unknown code
\* falls into the last case
SplitTagDispatchWithoutDefault(tagType) ==
    CASE tagType \in {"c", "s", "i"} -> "SplitTag_Int"
      [] tagType \in {"C", "S", "I"} -> "SplitTag_UInt"
      [] tagType = "f"               -> "SplitTag_Real"
      [] OTHER                       -> "SplitTag_String"

\* the switch of SplitTag: the typed routine a storage-class code selects
SplitTagDispatch(tagType) ==
    CASE tagType \in {"c", "s", "i"} -> "SplitTag_Int"
      [] tagType \in {"C", "S", "I"} -> "SplitTag_UInt"
      [] tagType = "f"               -> "SplitTag_Real"
      [] tagType \in {"A", "Z", "H"} -> "SplitTag_String"
      [] OTHER                       -> "unknown"

\* the family of values a typed routine's destination has
PathFamily(routine) ==
    CASE routine = "SplitTag_Int"    -> "Int"
      [] routine = "SplitTag_UInt"   -> "UInt"
      [] routine = "SplitTag_Real"   -> "Real"
      [] routine = "SplitTag_String" -> "String"

\* faulty variant of TagNotFoundResult: a tag never seen is an error
TagNotFoundIsAnError == FALSE

\* what SplitTag returns when the source ends before the tag was seen
TagNotFoundResult == TRUE

\* what SplitTag returns on a storage class its switch does not know
UnknownStorageClassResult == FALSE

\* faulty variant of NoPropertyResult: a run with no split mode succeeds
NoPropertyIsSuccess == TRUE

\* what SplitToolPrivate::Run returns when no split flag is set, after it
\* printed "no property given to split on"
NoPropertyResult == FALSE

\* faulty variant of OpenReader: the failed Open is not reported
OpenReaderIgnoringFailure(src) == TRUE

\* OpenReader: what m_reader.Open(InputFilename) returned; on success the
\* caller's m_header and m_references are read from the source
OpenReader(src) == src.opens

\* a routine's bool as the model's result value
ResultOf(b) == IF b THEN "true" ELSE "false"

\* the order the clean-up loop walks the map in (std::map's key order)
KeyOrd(k) ==
    IF ModeOf(settings) \in {"mapped", "paired"} THEN (IF k THEN 1 ELSE 0) ELSE k

\* the entry the clean-up iterator stands at
NextToClose ==
    CHOOSE k \in DOMAIN outputFiles \ visited :
        \A j \in DOMAIN outputFiles \ visited : KeyOrd(k) <= KeyOrd(j)

\* whether the environment is asked to create a file: only a new key opens one
OpenOutcomes(key) == IF Find(outputFiles, key) = End THEN BOOLEAN ELSE {TRUE}

----------------------------------------------------------------------------
(* The run *)

\* the state after the tool is constructed and the command line parsed, for
\* the -in / -stub options of stubs and inputs of at most n records
InitFor(stubs, n) ==
    /\ settings \in SettingsSet(stubs)
    /\ source \in SourcesFor(ModeOf(settings), n)
    /\ pc = "start"
    /\ m_outputFilenameStub = <<>>
    /\ m_header = <<>>
    /\ m_references = <<>>
    /\ readerOpen = FALSE
    /\ readerPos = 0
    /\ readerCloses = 0
    /\ writers = <<>>
    /\ outputFiles = <<>>
    /\ visited = {}
    /\ result = "none"
    /\ exitStatus = -1

Init == InitFor({InputFileStub}, MaxLen)

\* the tags of AllTagTypes a record may carry
AllTags == {NoTag} \cup
           { [has |-> TRUE, type |-> t, val |-> v] : t \in AllTagTypes, v \in TagValues }

\* the input files of at most n records of a tag-mode run whose records
\* carry the tag in any storage class of AllTagTypes, or do not carry it
DispatchSources(n) ==
    { [opens |-> TRUE, header |-> HeaderText, references |-> RefTable, records |-> rs] :
         rs \in SeqsUpTo({ [DefaultRecord EXCEPT !.tag = t] : t \in AllTags }, n) }

\* the runs of every mode on inputs of at most DispatchMaxLen records, the
\* tag-mode inputs taken from DispatchSources
InitDispatch ==
    /\ settings \in SettingsSet({InputFileStub})
    /\ source \in (IF ModeOf(settings) = "tag"
                   THEN DispatchSources(DispatchMaxLen)
                   ELSE SourcesFor(ModeOf(settings), DispatchMaxLen))
    /\ pc = "start"
    /\ m_outputFilenameStub = <<>>
    /\ m_header = <<>>
    /\ m_references = <<>>
    /\ readerOpen = FALSE
    /\ readerPos = 0
    /\ readerCloses = 0
    /\ writers = <<>>
    /\ outputFiles = <<>>
    /\ visited = {}
    /\ result = "none"
    /\ exitStatus = -1

\* the runs of every -in / -stub combination, on inputs of at most
\* StubMaxLen records
InitStub == InitFor(StubSettings, StubMaxLen)

\* SplitTool::Run up to the call of a split routine: SplitToolPrivate::Run
\* with DetermineOutputFilenameStub and OpenReader
RunStart ==
    /\ pc = "start"
    /\ \E ct \in (IF settings.HasCustomOutputStub \/ settings.HasInputFilename
                  THEN {<<>>} ELSE CtimeTexts) :
          m_outputFilenameStub' = DetermineOutputFilenameStub(settings, ct)
    /\ IF ~OpenReader(source)
       THEN /\ result' = "false"
            /\ pc' = "returned"
            /\ UNCHANGED <<m_header, m_references, readerOpen>>
       ELSE /\ m_header' = source.header
            /\ m_references' = source.references
            /\ readerOpen' = TRUE
            /\ IF ModeOf(settings) = "none"
               THEN result' = ResultOf(NoPropertyResult) /\ pc' = "returned"
               ELSE /\ result' = result
                    /\ pc' = CASE ModeOf(settings) = "mapped"    -> "SplitMapped"
                               [] ModeOf(settings) = "paired"    -> "SplitPaired"
                               [] ModeOf(settings) = "reference" -> "SplitReference"
                               [] ModeOf(settings) = "tag"       -> "SplitTag"
    /\ UNCHANGED <<settings, source, readerPos, readerCloses, writers, outputFiles,
                   visited, exitStatus>>

\* faulty variant of RouteStep: the writer is closed as soon as the record
\* is saved, inside the loop
RouteStepClosingAfterSave(key, filename) ==
    \E ok \in OpenOutcomes(key) :
        LET r == Route(writers, outputFiles, key, filename, m_header, m_references,
                       ok, NextAlignment)
        IN  /\ writers' = CloseWriter(r.writers, r.outputFiles[key])
            /\ outputFiles' = r.outputFiles
            /\ readerPos' = readerPos + 1

\* one pass of a routing loop for the record just read, its key known
RouteStep(key, filename) ==
    \E ok \in OpenOutcomes(key) :
        LET r == Route(writers, outputFiles, key, filename, m_header, m_references,
                       ok, NextAlignment)
        IN  /\ writers' = r.writers
            /\ outputFiles' = r.outputFiles
            /\ readerPos' = readerPos + 1

\* the end of a routing loop: GetNextAlignment returned false
EndOfSource ==
    /\ pc' = "cleanup"
    /\ UNCHANGED <<writers, outputFiles, readerPos>>

\* one pass of the loop of SplitMapped
SplitMapped ==
    /\ pc = "SplitMapped"
    /\ IF HasNextAlignment
       THEN LET isCurrentAlignmentMapped == Records[NextAlignment].mapped IN
            /\ RouteStep(isCurrentAlignmentMapped,
                         MappedFilename(m_outputFilenameStub, isCurrentAlignmentMapped))
            /\ pc' = pc
       ELSE EndOfSource
    /\ UNCHANGED <<settings, source, m_outputFilenameStub, m_header, m_references,
                   readerOpen, readerCloses, visited, result, exitStatus>>

\* one pass of the loop of SplitPaired
SplitPaired ==
    /\ pc = "SplitPaired"
    /\ IF HasNextAlignment
       THEN LET isCurrentAlignmentPaired == Records[NextAlignment].paired IN
            /\ RouteStep(isCurrentAlignmentPaired,
                         PairedFilename(m_outputFilenameStub, isCurrentAlignmentPaired))
            /\ pc' = pc
       ELSE EndOfSource
    /\ UNCHANGED <<settings, source, m_outputFilenameStub, m_header, m_references,
                   readerOpen, readerCloses, visited, result, exitStatus>>

\* one pass of the loop of SplitReference.  For a new key the reference name
\* is looked up with at() before the writer is opened: an id outside the
\* table throws, nothing in this file catches it, and the run ends there
\* with the record unrouted and the map's writers unclosed.
SplitReference ==
    /\ pc = "SplitReference"
    /\ IF HasNextAlignment
       THEN LET currentRefId == Records[NextAlignment].refId IN
            IF Find(outputFiles, currentRefId) = End
               /\ ~RefInTable(m_references, currentRefId)
            THEN /\ pc' = "threw"
                 /\ readerPos' = readerPos + 1
                 /\ UNCHANGED <<writers, outputFiles>>
            ELSE /\ RouteStep(currentRefId,
                              ReferenceFilename(m_outputFilenameStub, m_references,
                                                currentRefId))
                 /\ pc' = pc
       ELSE EndOfSource
    /\ UNCHANGED <<settings, source, m_outputFilenameStub, m_header, m_references,
                   readerOpen, readerCloses, visited, result, exitStatus>>

\* one pass of the loop of SplitTag: skip a record without the tag; on the
\* first record that has it, return what the typed routine of its storage
\* class returns (the routine starts with that record), or fail on a class
\* the switch does not know
SplitTag ==
    /\ pc = "SplitTag"
    /\ IF HasNextAlignment
       THEN LET al == NextAlignment IN
            /\ readerPos' = readerPos + 1
            /\ IF ~GetTagType(al)
               THEN /\ pc' = pc
                    /\ UNCHANGED <<writers, outputFiles, result>>
               ELSE LET routine == SplitTagDispatch(TagTypeOf(al)) IN
                    IF routine = "unknown"
                    THEN /\ result' = ResultOf(UnknownStorageClassResult)
                         /\ pc' = "returned"
                         /\ UNCHANGED <<writers, outputFiles>>
                    ELSE /\ pc' = routine
                         /\ result' = result
                         /\ \E currentValue \in GetTagOutcomes(PathFamily(routine), al) :
                               IF currentValue = 0
                               THEN UNCHANGED <<writers, outputFiles>>
                               ELSE \E ok \in BOOLEAN :
                                      LET r == FirstAlignment(writers, outputFiles,
                                                  currentValue,
                                                  TagFilename(m_outputFilenameStub,
                                                      settings.TagToSplit,
                                                      ValueText(PathFamily(routine),
                                                                currentValue)),
                                                  m_header, m_references, ok, al)
                                      IN  /\ writers' = r.writers
                                          /\ outputFiles' = r.outputFiles
       ELSE /\ result' = ResultOf(TagNotFoundResult)
            /\ pc' = "returned"
            /\ UNCHANGED <<writers, outputFiles, readerPos>>
    /\ UNCHANGED <<settings, source, m_outputFilenameStub, m_header, m_references,
                   readerOpen, readerCloses, visited, exitStatus>>

\* faulty variant of TypedLoop: the storage class of each record is looked
\* at again and the record goes to the routine of its own class
TypedLoopRedispatching(routine) ==
    /\ IF HasNextAlignment
       THEN LET al   == NextAlignment
                next == IF GetTagType(al) /\ SplitTagDispatch(TagTypeOf(al)) # "unknown"
                        THEN SplitTagDispatch(TagTypeOf(al)) ELSE routine
            IN  /\ pc' = next
                /\ \E currentValue \in GetTagOutcomes(PathFamily(next), al) :
                      IF currentValue = 0
                      THEN /\ readerPos' = readerPos + 1
                           /\ UNCHANGED <<writers, outputFiles>>
                      ELSE RouteStep(currentValue,
                                     TagFilename(m_outputFilenameStub, settings.TagToSplit,
                                                 ValueText(PathFamily(next), currentValue)))
       ELSE EndOfSource
    /\ UNCHANGED <<settings, source, m_outputFilenameStub, m_header, m_references,
                   readerOpen, readerCloses, visited, result, exitStatus>>

\* one pass of the loop over the remaining alignments of a typed tag routine:
\* skip the record when GetTag gives no value, route it by its value otherwise
TypedLoop(routine) ==
    /\ IF HasNextAlignment
       THEN /\ pc' = pc
            /\ \E currentValue \in GetTagOutcomes(PathFamily(routine), NextAlignment) :
                  IF currentValue = 0
                  THEN /\ readerPos' = readerPos + 1
                       /\ UNCHANGED <<writers, outputFiles>>
                  ELSE RouteStep(currentValue,
                                 TagFilename(m_outputFilenameStub, settings.TagToSplit,
                                             ValueText(PathFamily(routine), currentValue)))
       ELSE EndOfSource
    /\ UNCHANGED <<settings, source, m_outputFilenameStub, m_header, m_references,
                   readerOpen, readerCloses, visited, result, exitStatus>>

SplitTag_Int ==
    /\ pc = "SplitTag_Int"
    /\ TypedLoop("SplitTag_Int")

SplitTag_UInt ==
    /\ pc = "SplitTag_UInt"
    /\ TypedLoop("SplitTag_UInt")

SplitTag_Real ==
    /\ pc = "SplitTag_Real"
    /\ TypedLoop("SplitTag_Real")

\* faulty variant of SplitTag_String: a tag of another storage class ends
\* the routine with failure
SplitTag_String_AbortingOnOtherClass ==
    /\ pc = "SplitTag_String"
    /\ IF HasNextAlignment /\ Records[NextAlignment].tag.has
          /\ FamilyOf(Records[NextAlignment].tag.type) # "String"
       THEN /\ readerPos' = readerPos + 1
            /\ result' = "false"
            /\ pc' = "returned"
            /\ UNCHANGED <<settings, source, m_outputFilenameStub, m_header,
                           m_references, readerOpen, readerCloses, writers,
                           outputFiles, visited, exitStatus>>
       ELSE TypedLoop("SplitTag_String")

SplitTag_String ==
    /\ pc = "SplitTag_String"
    /\ TypedLoop("SplitTag_String")

\* one pass of the clean-up loop that ends every routing routine: close and
\* delete the writer of the next map entry; past the last entry, return true
CleanUp ==
    /\ pc = "cleanup"
    /\ IF visited # DOMAIN outputFiles
       THEN /\ writers' = CloseWriter(writers, outputFiles[NextToClose])
            /\ visited' = visited \cup {NextToClose}
            /\ UNCHANGED <<pc, result>>
       ELSE /\ result' = "true"
            /\ pc' = "returned"
            /\ UNCHANGED <<writers, visited>>
    /\ UNCHANGED <<settings, source, m_outputFilenameStub, m_header, m_references,
                   readerOpen, readerPos, readerCloses, outputFiles, exitStatus>>

\* the end of SplitTool::Run: 0 when m_impl->Run() returned true, 1 otherwise
RunReturn ==
    /\ pc = "returned"
    /\ exitStatus' = IF result = "true" THEN 0 ELSE 1
    /\ pc' = "done"
    /\ UNCHANGED <<settings, source, m_outputFilenameStub, m_header, m_references,
                   readerOpen, readerPos, readerCloses, writers, outputFiles,
                   visited, result>>

\* ~SplitTool: delete m_impl, whose destructor closes the reader
Destroy ==
    /\ pc = "done"
    /\ readerOpen' = FALSE
    /\ readerCloses' = readerCloses + 1
    /\ pc' = "destroyed"
    /\ UNCHANGED <<settings, source, m_outputFilenameStub, m_header, m_references,
                   readerPos, writers, outputFiles, visited, result, exitStatus>>

Next ==
    \/ RunStart
    \/ SplitMapped
    \/ SplitPaired
    \/ SplitReference
    \/ SplitTag
    \/ SplitTag_Int
    \/ SplitTag_UInt
    \/ SplitTag_Real
    \/ SplitTag_String
    \/ CleanUp
    \/ RunReturn
    \/ Destroy

Spec == Init /\ [][Next]_vars

\* the same run for every way the -in and -stub options can be given
SpecStub == InitStub /\ [][Next]_vars

\* the same run on inputs whose tags carry every storage-class code
SpecDispatch == InitDispatch /\ [][Next]_vars

----------------------------------------------------------------------------
(* Vocabulary of the properties *)

Mode == ModeOf(settings)

\* SplitToolPrivate::Run has returned, or was left by an exception
RunEnded == pc \in {"returned", "done", "destroyed", "threw"}

\* SplitTool::Run has returned its exit status
Exited == pc \in {"done", "destroyed"}

Positions == 1..Len(Records)

Writers == 1..Len(writers)

\* the positions a writer was given, as a set
SavedSet(w) == { writers[w].saved[p] : p \in 1..Len(writers[w].saved) }

\* the places (writer, index in its sequence) where record i was saved
SavePlaces(i) ==
    UNION { { <<w, p>> : p \in { q \in 1..Len(writers[w].saved) :
                                   writers[w].saved[q] = i } } : w \in Writers }

\* the storage-class codes of the four recognised families
RecognisedCodes == {"c", "s", "i", "C", "S", "I", "f", "A", "Z", "H"}

TextCodes == {"A", "Z", "H"}

NumericCodes == {"c", "s", "i", "C", "S", "I", "f"}

HasTag(i) == Records[i].tag.has

TaggedPositions == { i \in Positions : HasTag(i) }

RECURSIVE FirstTaggedFrom(_)
FirstTaggedFrom(i) ==
    IF i > Len(Records) THEN 0
    ELSE IF HasTag(i) THEN i
    ELSE FirstTaggedFrom(i + 1)

\* the first record that carries the tag (0 when none does)
FirstTagged == FirstTaggedFrom(1)

FamilyOfCode(t) ==
    CASE t \in {"c", "s", "i"} -> "Int"
      [] t \in {"C", "S", "I"} -> "UInt"
      [] t = "f"               -> "Real"
      [] t \in TextCodes       -> "String"
      [] OTHER                 -> "none"

\* the family of the typed path the first tag-bearing record selects
LockedFamily ==
    LET ft == FirstTagged IN
    IF ft = 0 THEN "none" ELSE FamilyOfCode(Records[ft].tag.type)

\* record i has a key in a run whose typed path (in tag mode) has family fam:
\* always in mapped, paired and reference mode; in tag mode when it carries
\* the tag in the storage class of the path the run selected
DeterminableIn(fam, i) ==
    IF Mode = "tag"
    THEN HasTag(i) /\ fam # "none" /\ FamilyOfCode(Records[i].tag.type) = fam
    ELSE Mode \in {"mapped", "paired", "reference"}

\* the partition key of a record that has one
KeyOf(i) ==
    CASE Mode = "mapped"    -> Records[i].mapped
      [] Mode = "paired"    -> Records[i].paired
      [] Mode = "reference" -> Records[i].refId
      [] Mode = "tag"       -> Records[i].tag.val

----------------------------------------------------------------------------
(* C1 *)

\* C1 (as claimed): when the run has ended, every input record whose key can
\* be determined has been saved exactly once, to the sink of its own key, and
\* every record without the tag has been saved to no sink.
C1_ExactlyOnceRouting ==
    (RunEnded /\ source.opens /\ Mode # "none") =>
        LET fam == IF Mode = "tag" THEN LockedFamily ELSE "none" IN
        \A i \in Positions :
            /\ DeterminableIn(fam, i) =>
                  /\ Cardinality(SavePlaces(i)) = 1
                  /\ \A wp \in SavePlaces(i) : writers[wp[1]].key = KeyOf(i)
            /\ (Mode = "tag" /\ ~HasTag(i)) => SavePlaces(i) = {}

----------------------------------------------------------------------------
(* C2 *)

\* C2: at every point of the run, in every mode, the positions saved to any
\* one sink are records already read, in strictly increasing input order:
\* each sink's sequence is a subsequence of the input.
C2_OrderPreserved ==
    \A w \in Writers :
        LET sv == writers[w].saved IN
        /\ \A p \in 1..Len(sv) : sv[p] \in 1..readerPos
        /\ \A p, q \in 1..Len(sv) : p < q => sv[p] < sv[q]

\* two records sharing a key, with a record of another key read between them
C2_Witness ==
    /\ Len(writers) = 2
    /\ writers[1].saved = <<1, 3>>
    /\ writers[2].saved = <<2>>

----------------------------------------------------------------------------
(* C3 *)

\* C3: after a mapped-mode or paired-mode run, the records saved to the
\* true-sink and the false-sink together are all the input records, and no
\* record is in both.
C3_MappedPairedPartition ==
    (RunEnded /\ source.opens /\ Mode \in {"mapped", "paired"}) =>
        LET inTrue  == IF TRUE \in DOMAIN outputFiles
                       THEN SavedSet(outputFiles[TRUE]) ELSE {}
            inFalse == IF FALSE \in DOMAIN outputFiles
                       THEN SavedSet(outputFiles[FALSE]) ELSE {}
        IN  /\ inTrue \cup inFalse = Positions
            /\ inTrue \cap inFalse = {}

\* a finished paired-mode run whose two sinks both hold records, one of them
\* more than one
C3_Witness ==
    /\ pc = "done"
    /\ Mode = "paired"
    /\ DOMAIN outputFiles = {TRUE, FALSE}
    /\ Len(writers[outputFiles[TRUE]].saved) = 2
    /\ Len(writers[outputFiles[FALSE]].saved) = 1

----------------------------------------------------------------------------
(* C4 *)

\* C4 (as claimed): after a reference-mode run, whatever reference ids the
\* records carry, the sinks created correspond one to one to the distinct
\* reference ids of the input records.
C4_OneSinkPerObservedReference ==
    (RunEnded /\ source.opens /\ Mode = "reference") =>
        /\ { writers[w].key : w \in Writers } = { Records[i].refId : i \in Positions }
        /\ \A w1, w2 \in Writers : writers[w1].key = writers[w2].key => w1 = w2

----------------------------------------------------------------------------
(* C5 *)

\* C5: a tag-mode run over an input in which no record carries the tag reads
\* the source to its end, opens no sink and returns success (exit status 0).
C5_AbsentTagSucceeds ==
    (RunEnded /\ source.opens /\ Mode = "tag" /\ TaggedPositions = {}) =>
        /\ readerPos = Len(Records)
        /\ writers = <<>>
        /\ result = "true"
        /\ Exited => exitStatus = 0

\* a finished tag-mode run over several records, none with the tag
C5_Witness ==
    /\ pc = "done"
    /\ Mode = "tag"
    /\ Len(Records) >= 2
    /\ TaggedPositions = {}
    /\ exitStatus = 0

----------------------------------------------------------------------------
(* C6 *)

\* the records read so far that were routed by a key of their own
RoutedSoFar(fam) ==
    { i \in 1..readerPos : DeterminableIn(fam, i) /\ ~(pc = "threw" /\ i = readerPos) }

\* record i, read so far, may have been routed under key k
MayHaveKey(fam, i, k) ==
    IF Mode = "tag"
    THEN HasTag(i) /\ (DeterminableIn(fam, i) => KeyOf(i) = k)
    ELSE DeterminableIn(fam, i) /\ ~(pc = "threw" /\ i = readerPos) /\ KeyOf(i) = k

\* C6: in every reachable state the pool holds at most one sink per key, the
\* map's keys are the sinks' keys, every record routed so far has the sink of
\* its key, and every sink's key is the key of a record read so far.
C6_WriterPoolInvariant ==
    /\ \A w1, w2 \in Writers : writers[w1].key = writers[w2].key => w1 = w2
    /\ DOMAIN outputFiles = { writers[w].key : w \in Writers }
    /\ \A k \in DOMAIN outputFiles : writers[outputFiles[k]].key = k
    /\ LET fam == IF Mode = "tag" THEN LockedFamily ELSE "none" IN
       /\ \A i \in RoutedSoFar(fam) : KeyOf(i) \in DOMAIN outputFiles
       /\ \A k \in DOMAIN outputFiles : \E i \in 1..readerPos : MayHaveKey(fam, i, k)

\* in the middle of a run: three records read, two keys seen, one of them
\* a second time (its sink was reused)
C6_Witness ==
    /\ pc \in {"SplitReference", "SplitTag_Int"}
    /\ readerPos = 3
    /\ Cardinality(DOMAIN outputFiles) = 2
    /\ \E w \in Writers : Len(writers[w].saved) = 2

----------------------------------------------------------------------------
(* C7 *)

\* C7 (as claimed): however the run ends, every sink opened during the run
\* has been closed exactly once when the run has ended.
C7_TeardownOnEveryExit ==
    RunEnded => \A w \in Writers : writers[w].closes = 1

----------------------------------------------------------------------------
(* C8 *)

\* C8 (as claimed): a run in which a sink could not be opened reports
\* failure (exit status 1), never success.
C8_SinkOpenFailureIsFatal ==
    (Exited /\ \E w \in Writers : ~writers[w].openOk) => exitStatus = 1

----------------------------------------------------------------------------
(* C9 *)

\* a tag-mode input whose first tag-bearing record has a text value and
\* which has a later record carrying the tag in a numeric storage class
TextThenNumeric ==
    /\ Mode = "tag"
    /\ source.opens
    /\ FirstTagged # 0
    /\ Records[FirstTagged].tag.type \in TextCodes
    /\ \E j \in Positions :
          j > FirstTagged /\ HasTag(j) /\ Records[j].tag.type \in NumericCodes

\* the first record after FirstTagged that carries the tag in a numeric class
FirstNumericAfterText ==
    CHOOSE j \in Positions :
        /\ j > FirstTagged /\ HasTag(j) /\ Records[j].tag.type \in NumericCodes
        /\ \A h \in Positions :
              (h > FirstTagged /\ HasTag(h) /\ Records[h].tag.type \in NumericCodes)
                  => j <= h

\* C9 (as claimed): on such an input the run aborts at the later record (no
\* record after it is read) and reports failure.
C9_InconsistentTypeAborts ==
    (Exited /\ TextThenNumeric) =>
        /\ readerPos = FirstNumericAfterText
        /\ result = "false"
        /\ exitStatus = 1

\* C9 (amended): on such an input the run does not abort: once the text
\* routine is entered it is never left for another routine or for failure,
\* the source is read to its end, every sink opened is closed once, and the
\* run reports success (exit status 0).
C9_InconsistentTypeDoesNotAbort ==
    TextThenNumeric =>
        /\ pc \in {"start", "SplitTag", "SplitTag_String", "cleanup", "returned",
                   "done", "destroyed"}
        /\ RunEnded =>
              /\ result = "true"
              /\ readerPos = Len(Records)
              /\ \A w \in Writers : writers[w].closes = 1
        /\ Exited => exitStatus = 0

\* a finished run: text first, a numeric tag second, and a third record
\* that was still routed after it
C9_Witness ==
    /\ pc = "done"
    /\ TextThenNumeric
    /\ FirstTagged = 1
    /\ Records[2].tag.has /\ Records[2].tag.type \in NumericCodes
    /\ \E w \in Writers : 3 \in SavedSet(w)
    /\ exitStatus = 0

----------------------------------------------------------------------------
(* C10 *)

\* the first tag-bearing record has a storage class outside the four families
FirstTagUnsupported ==
    /\ FirstTagged # 0
    /\ Records[FirstTagged].tag.type \notin RecognisedCodes

\* C10: in tag mode, when the first record carrying the tag has a storage
\* class outside the four recognised families, no record after it is read,
\* no record is written, and the run reports failure (exit status 1); and a
\* tag-mode run fails only in that case (never for a record without the tag).
C10_UnsupportedClassStopsRun ==
    (Mode = "tag" /\ source.opens) =>
        /\ FirstTagUnsupported =>
              /\ readerPos <= FirstTagged
              /\ writers = <<>>
              /\ RunEnded => (readerPos = FirstTagged /\ result = "false")
              /\ Exited => exitStatus = 1
        /\ (result = "false" \/ exitStatus = 1) => FirstTagUnsupported

\* a finished run that failed on the second record, the first lacking the
\* tag and the third never read
C10_Witness ==
    /\ pc = "done"
    /\ Mode = "tag"
    /\ Len(Records) = 3
    /\ FirstTagged = 2
    /\ FirstTagUnsupported
    /\ readerPos = 2
    /\ exitStatus = 1

----------------------------------------------------------------------------
(* C11 *)

\* the split routines and their clean-up
SplitPositions ==
    {"SplitMapped", "SplitPaired", "SplitReference", "SplitTag", "SplitTag_Int",
     "SplitTag_UInt", "SplitTag_Real", "SplitTag_String", "cleanup"}

\* C11: when none of the four split flags is set and the source opens, the
\* run enters no split routine, pulls no record from the source, opens no
\* sink, and reports failure (exit status 1).
C11_NoModeIsAUserError ==
    (Mode = "none" /\ source.opens) =>
        /\ pc \notin SplitPositions
        /\ pc # "threw"
        /\ readerPos = 0
        /\ writers = <<>> /\ outputFiles = <<>>
        /\ RunEnded => result = "false"
        /\ Exited => exitStatus = 1

\* a finished run without a split flag on an opened source that holds
\* records: none was read, the exit status is 1
C11_Witness ==
    /\ pc = "done"
    /\ Mode = "none"
    /\ source.opens /\ readerOpen
    /\ Len(Records) = MaxLen
    /\ readerPos = 0
    /\ exitStatus = 1

----------------------------------------------------------------------------
(* C12 *)

\* C12: when the source cannot be opened, whatever split flags are set, the
\* run never enters a split routine, pulls no record, opens no sink, copies
\* no header or reference table, and reports failure (exit status 1).
C12_SourceOpenFailureIsFatal ==
    ~source.opens =>
        /\ pc \notin SplitPositions
        /\ pc # "threw"
        /\ readerPos = 0
        /\ ~readerOpen
        /\ writers = <<>> /\ outputFiles = <<>>
        /\ m_header = <<>> /\ m_references = <<>>
        /\ RunEnded => result = "false"
        /\ Exited => exitStatus = 1

\* a finished run with all four split flags set whose source did not open
C12_Witness ==
    /\ pc = "done"
    /\ ~source.opens
    /\ settings.IsSplittingMapped /\ settings.IsSplittingPaired
    /\ settings.IsSplittingReference /\ settings.IsSplittingTag
    /\ exitStatus = 1

----------------------------------------------------------------------------
(* C13 *)

\* the text s cut just before its last ".", the whole of s when it has none
CutBeforeLastDot(s) ==
    IF \A i \in 1..Len(s) : s[i] # "." THEN s
    ELSE CHOOSE p \in { SubSeq(s, 1, k) : k \in 0..Len(s) } :
            \E rest \in { SubSeq(s, k, Len(s)) : k \in 1..(Len(s) + 1) } :
                /\ s = p \o <<".">> \o rest
                /\ \A i \in 1..Len(rest) : rest[i] # "."

\* the claim's example: "/a/b/file.bam" gives "/a/b/file"
ExampleFilename == <<"/", "a", "/", "b", "/", "f", "i", "l", "e", ".", "b", "a", "m">>
ExampleStub     == <<"/", "a", "/", "b", "/", "f", "i", "l", "e">>

\* C13: once the stub is determined it is the -stub text verbatim when one
\* was given (whatever -in says); otherwise, when -in was given, the input
\* filename cut just before its last "." ("/a/b/file.bam" gives
\* "/a/b/file"), the whole filename when it holds no "."; otherwise the
\* timestamp string made from the clock's text.
C13_StubResolution ==
    pc # "start" =>
        /\ settings.HasCustomOutputStub =>
              m_outputFilenameStub = settings.CustomOutputStub
        /\ (~settings.HasCustomOutputStub /\ settings.HasInputFilename) =>
              /\ m_outputFilenameStub = CutBeforeLastDot(settings.InputFilename)
              /\ settings.InputFilename = ExampleFilename =>
                    m_outputFilenameStub = ExampleStub
        /\ (~settings.HasCustomOutputStub /\ ~settings.HasInputFilename) =>
              \E ct \in CtimeTexts : m_outputFilenameStub = GetTimestampString(ct)

\* a finished run with -in "a.b.bam" and no -stub, its stub "a.b", that
\* opened a sink
C13_Witness ==
    /\ pc = "done"
    /\ ~settings.HasCustomOutputStub
    /\ settings.InputFilename = <<"a", ".", "b", ".", "b", "a", "m">>
    /\ m_outputFilenameStub = <<"a", ".", "b">>
    /\ writers # <<>>

----------------------------------------------------------------------------
(* C14 *)

\* the whitespace characters
Whitespace == {" ", "\t", "\n"}

\* C14: a stub made from the timestamp (neither -stub nor -in given) holds
\* no space, tab or newline character, for every text the clock gives,
\* its trailing line terminator included.
C14_TimestampStubHasNoWhitespace ==
    (pc # "start" /\ ~settings.HasCustomOutputStub /\ ~settings.HasInputFilename) =>
        \A i \in 1..Len(m_outputFilenameStub) : m_outputFilenameStub[i] \notin Whitespace

----------------------------------------------------------------------------
(* C15 *)

\* the text after the stub in the name of the sink of key k, as the naming
\* patterns give it
NameAfterStub(k) ==
    CASE Mode = "mapped" ->
            IF k THEN <<".", "M", "A", "P", "P", "E", "D", ".", "b", "a", "m">>
            ELSE <<".", "U", "N", "M", "A", "P", "P", "E", "D", ".", "b", "a", "m">>
      [] Mode = "paired" ->
            IF k THEN <<".", "P", "A", "I", "R", "E", "D", "_", "E", "N", "D",
                        ".", "b", "a", "m">>
            ELSE <<".", "S", "I", "N", "G", "L", "E", "_", "E", "N", "D",
                   ".", "b", "a", "m">>
      [] Mode = "reference" ->
            <<".", "R", "E", "F", "_">> \o source.references[k + 1]
               \o <<".", "b", "a", "m">>
      [] Mode = "tag" ->
            <<".", "T", "A", "G", "_">> \o settings.TagToSplit \o <<"_">>
               \o (IF LockedFamily = "Real"
                   THEN <<"0", ".", "1", "2", "3", "4", "5", "7">>
                   ELSE IntText(k))
               \o <<".", "b", "a", "m">>

\* C15: every sink is opened at <stub> followed by the pattern of its mode
\* and key (.MAPPED.bam / .UNMAPPED.bam, .PAIRED_END.bam / .SINGLE_END.bam,
\* .REF_<referenceName>.bam, .TAG_<tagName>_<value>.bam), the stub being the
\* one the run determined before any sink existed and the same for all.
C15_FilenamePatterns ==
    /\ pc = "start" => writers = <<>>
    /\ \A w \in Writers :
          writers[w].filename = m_outputFilenameStub \o NameAfterStub(writers[w].key)

\* a finished reference-mode run with -stub "o.x" that opened the sinks
\* "o.x.REF_chr1.bam" and "o.x.REF_chr2.bam"
C15_Witness ==
    /\ pc = "done"
    /\ Mode = "reference"
    /\ settings.CustomOutputStub = <<"o", ".", "x">>
    /\ Len(writers) = 2
    /\ { writers[w].filename : w \in Writers } =
          { <<"o", ".", "x", ".", "R", "E", "F", "_", "c", "h", "r", "1", ".", "b", "a", "m">>,
            <<"o", ".", "x", ".", "R", "E", "F", "_", "c", "h", "r", "2", ".", "b", "a", "m">> }

----------------------------------------------------------------------------
(* C16 *)

\* C16: in every mode, two sinks bound to two distinct partition keys are
\* never opened at the same output filename (in reference mode the name is
\* built from the reference name of the key's refId, in float tag mode from
\* the value's text form).
C16_FilenamesUniquePerKey ==
    \A w1 \in Writers : \A w2 \in Writers :
        writers[w1].key # writers[w2].key => writers[w1].filename # writers[w2].filename

----------------------------------------------------------------------------
(* C17 *)

\* the tool is finished: destroyed after its run returned, or ended by the
\* exception that left the run
Finished == pc \in {"destroyed", "threw"}

\* C17: the source is never closed twice, and by the time the tool is
\* finished it has been closed exactly once, however the run ended.
C17_SourceClosedExactlyOnce ==
    /\ readerCloses <= 1
    /\ Finished => readerCloses = 1

----------------------------------------------------------------------------
(* C18 *)

\* C18: every sink was opened with the header text and the reference table
\* of the source, the same for all sinks, and from the first sink's opening
\* on the run's copies of both stay what the source gave.
C18_SharedHeaderAndReferences ==
    /\ \A w \in Writers :
          /\ writers[w].header = source.header
          /\ writers[w].references = source.references
    /\ writers # <<>> =>
          /\ m_header = source.header
          /\ m_references = source.references

\* a finished tag-mode run with two sinks, the first opened at the start of
\* the typed routine and the second in its loop, both carrying the source's
\* header and reference table
C18_Witness ==
    /\ pc = "destroyed"
    /\ Mode = "tag"
    /\ Len(writers) = 2
    /\ source.header = HeaderText /\ Len(source.references) = NumRefs
    /\ \A w \in Writers :
          writers[w].header = HeaderText /\ writers[w].references = source.references
    /\ m_header = HeaderText

----------------------------------------------------------------------------
(* C19 *)

\* a tag-mode run over an opened input whose tag-bearing records all carry
\* the tag in one storage class, of a recognised family
UniformSupportedClass ==
    /\ Mode = "tag"
    /\ source.opens
    /\ \A i \in TaggedPositions : Records[i].tag.type \in RecognisedCodes
    /\ \A i \in TaggedPositions : \A j \in TaggedPositions :
          Records[i].tag.type = Records[j].tag.type

\* C19: in such a run the first tag-bearing record opens the first sink and
\* is the first record saved to it, no record is saved twice or without
\* carrying the tag at any time, and when the run has ended the records saved
\* across all sinks are exactly the tag-bearing records, each once, the run
\* having read the whole input and reporting success.
C19_TagHandOffLosesNoRecord ==
    UniformSupportedClass =>
        /\ pc # "threw"
        /\ \A i \in Positions :
              /\ Cardinality(SavePlaces(i)) <= 1
              /\ SavePlaces(i) # {} => HasTag(i)
        /\ writers # <<>> =>
              /\ writers[1].saved # <<>>
              /\ Head(writers[1].saved) = FirstTagged
        /\ RunEnded =>
              /\ readerPos = Len(Records)
              /\ result = "true"
              /\ \A i \in Positions :
                    Cardinality(SavePlaces(i)) = (IF HasTag(i) THEN 1 ELSE 0)

\* a finished run over three records: the first lacks the tag, the second
\* and third carry it in one class with two values; the second sits in the
\* first sink, the third in the second
C19_Witness ==
    /\ pc = "done"
    /\ UniformSupportedClass
    /\ Len(Records) = 3
    /\ ~HasTag(1) /\ HasTag(2) /\ HasTag(3)
    /\ Records[2].tag.val # Records[3].tag.val
    /\ Len(writers) = 2
    /\ writers[1].saved = <<2>>
    /\ writers[2].saved = <<3>>
    /\ exitStatus = 0

----------------------------------------------------------------------------
(* C20 *)

\* the four typed extraction paths
TypedPaths == {"SplitTag_Int", "SplitTag_UInt", "SplitTag_Real", "SplitTag_String"}

\* the typed path of a family
PathOfFamily(fam) ==
    CASE fam = "Int"    -> "SplitTag_Int"
      [] fam = "UInt"   -> "SplitTag_UInt"
      [] fam = "Real"   -> "SplitTag_Real"
      [] fam = "String" -> "SplitTag_String"
      [] OTHER          -> "none"

\* the scan for the first tag-bearing record goes on exactly while no record
\* read so far carried the tag; the run is on a typed path only after that
\* record was read, and the path is the one of that record's storage class
\* whatever classes the records read since carry
LockedOnFirstTagged ==
    /\ pc = "SplitTag" => \A i \in 1..readerPos : ~HasTag(i)
    /\ pc \in TypedPaths =>
          /\ FirstTagged # 0
          /\ FirstTagged <= readerPos
          /\ pc = PathOfFamily(LockedFamily)

\* a step taken on a typed path stays on that path or ends it for the
\* clean-up; no step enters a typed path except from the scan
PathNeverChanges ==
    /\ pc \in TypedPaths => pc' \in {pc, "cleanup"}
    /\ (pc' \in TypedPaths /\ pc' # pc) => pc = "SplitTag"

\* C20: in tag mode the storage class is looked at on the first record that
\* carries the tag and on no other: the scan ends there, the typed path of
\* that record's class is the path of every later step of the run up to the
\* clean-up, whatever storage classes the later records carry, and the run
\* never moves from one typed path to another.
C20_StorageClassLockIn == [](LockedOnFirstTagged) /\ [][PathNeverChanges]_vars

\* the run is on the signed-integer path chosen on record 1 after it read
\* record 2, which carries the tag as text, and record 3 is still to come
C20_Witness ==
    /\ pc = "SplitTag_Int"
    /\ Len(Records) = 3
    /\ FirstTagged = 1
    /\ HasTag(2) /\ Records[2].tag.type \in TextCodes
    /\ readerPos = 2

----------------------------------------------------------------------------
(* C21 *)

\* the outcome the dispatch table gives a storage-class code: a typed path
\* or the unsupported-storage-class failure
ClaimedOutcome(code) ==
    CASE code = "c" -> "SplitTag_Int"
      [] code = "s" -> "SplitTag_Int"
      [] code = "i" -> "SplitTag_Int"
      [] code = "C" -> "SplitTag_UInt"
      [] code = "S" -> "SplitTag_UInt"
      [] code = "I" -> "SplitTag_UInt"
      [] code = "f" -> "SplitTag_Real"
      [] code = "A" -> "SplitTag_String"
      [] code = "Z" -> "SplitTag_String"
      [] code = "H" -> "SplitTag_String"
      [] OTHER      -> "unsupported"

\* the step of the scan that reads the first tag-bearing record leaves the
\* scan for the outcome of that record's code and no other: the typed path,
\* the result still open, or the end of the routine with failure and no sink
DispatchStep ==
    (pc = "SplitTag" /\ HasNextAlignment /\ HasTag(readerPos + 1)) =>
        LET outcome == ClaimedOutcome(Records[readerPos + 1].tag.type) IN
        IF outcome = "unsupported"
        THEN pc' = "returned" /\ result' = "false" /\ writers' = <<>>
        ELSE pc' = outcome /\ result' = "none"

\* once the first tag-bearing record is read, the run is on no typed path
\* but the one of its code, and it has failed exactly when the code is
\* outside the four families
DispatchedByCode ==
    (Mode = "tag" /\ source.opens /\ FirstTagged # 0 /\ readerPos >= FirstTagged) =>
        LET outcome == ClaimedOutcome(Records[FirstTagged].tag.type) IN
        /\ pc # "SplitTag"
        /\ pc \in TypedPaths => pc = outcome
        /\ outcome = "unsupported" <=> result = "false"

\* C21: the code of the first tag-bearing record selects the path: 'c', 's',
\* 'i' the signed-integer path, 'C', 'S', 'I' the unsigned-integer path, 'f'
\* the floating-point path, 'A', 'Z', 'H' the text path, every other code no
\* path and the unsupported-storage-class failure; each code has exactly
\* that one outcome.
C21_StorageClassDispatch == [](DispatchedByCode) /\ [][DispatchStep]_vars

\* a run on the text path after its second record, the first tag-bearing
\* one, was read with code 'H'
C21_Witness ==
    /\ pc = "SplitTag_String"
    /\ Len(Records) = 2
    /\ FirstTagged = 2
    /\ Records[2].tag.type = "H"
    /\ readerPos = 2
    /\ Len(writers) = 1

----------------------------------------------------------------------------
(* C22 *)

\* no step is left to take: the tool was destroyed after its run returned,
\* or the run was ended by an exception
Stopped == pc \in {"destroyed", "threw"}

\* C22: a run in mapped, paired or reference mode on an opened source never
\* stops short: it is not ended by an exception, whatever reference ids the
\* records carry, and when it has stopped it has read the source to its end,
\* closed every sink it opened and reported success (exit status 0).  (Every
\* run takes finitely many steps, so this is what "eventually completes"
\* asks of the states a run can stop in.)
C22_FlagModeRunsComplete ==
    (source.opens /\ Mode \in {"mapped", "paired", "reference"}) =>
        /\ pc # "threw"
        /\ Stopped =>
              /\ readerPos = Len(Records)
              /\ \A w \in Writers : writers[w].closes = 1
              /\ result = "true"
              /\ exitStatus = 0

----------------------------------------------------------------------------
(* C23 *)

\* the mode flags in their order of precedence
FlagsInOrder ==
    << <<"mapped", settings.IsSplittingMapped>>,
       <<"paired", settings.IsSplittingPaired>>,
       <<"reference", settings.IsSplittingReference>>,
       <<"tag", settings.IsSplittingTag>> >>

\* the mode of the first flag set in that order, "none" when none is set
ModeByPrecedence ==
    IF \A n \in 1..4 : ~FlagsInOrder[n][2] THEN "none"
    ELSE FlagsInOrder[CHOOSE n \in 1..4 :
                         /\ FlagsInOrder[n][2]
                         /\ \A m \in 1..(n - 1) : ~FlagsInOrder[m][2]][1]

\* the positions of the split routine of a mode
RoutinePositions(mode) ==
    CASE mode = "mapped"    -> {"SplitMapped"}
      [] mode = "paired"    -> {"SplitPaired"}
      [] mode = "reference" -> {"SplitReference"}
      [] mode = "tag"       -> {"SplitTag"} \cup TypedPaths
      [] OTHER              -> {}

\* the keys the records read so far have in a mode
KeysRead(mode) ==
    CASE mode = "mapped"    -> { Records[i].mapped : i \in 1..readerPos }
      [] mode = "paired"    -> { Records[i].paired : i \in 1..readerPos }
      [] mode = "reference" -> { Records[i].refId : i \in 1..readerPos }
      [] mode = "tag"       -> { Records[i].tag.val : i \in 1..readerPos }

\* the token that follows the stub in the sink names of a mode
TokensOf(mode) ==
    CASE mode = "mapped"    -> {SPLIT_MAPPED_TOKEN, SPLIT_UNMAPPED_TOKEN}
      [] mode = "paired"    -> {SPLIT_PAIRED_TOKEN, SPLIT_SINGLE_TOKEN}
      [] mode = "reference" -> {SPLIT_REFERENCE_TOKEN}
      [] mode = "tag"       -> {TAG_TOKEN}

\* text s goes on with one of the texts of set T from position n + 1
HasTokenAfter(s, n, T) ==
    \E t \in T : Len(s) >= n + Len(t) /\ SubSeq(s, n + 1, n + Len(t)) = t

\* C23: with at least one mode flag set and the source open, the run is in
\* no split routine but the one of the first flag set in the order mapped,
\* paired, reference, tag; every sink is one of that mode (its key a key of
\* a record read in that mode, its name carrying that mode's token); and in
\* mapped and paired mode, whatever the flags after it, an ended run has a
\* sink for exactly the keys of the input and reports success.
C23_ModePrecedence ==
    LET mode == ModeByPrecedence IN
    (source.opens /\ mode # "none") =>
        LET keys == KeysRead(mode) IN
        /\ pc # "start" => pc \in RoutinePositions(mode) \cup
                                {"cleanup", "returned", "done", "destroyed", "threw"}
        /\ \A w \in Writers :
              /\ writers[w].key \in keys
              /\ HasTokenAfter(writers[w].filename, Len(m_outputFilenameStub),
                               TokensOf(mode))
        /\ (mode \in {"mapped", "paired"} /\ RunEnded) =>
              /\ readerPos = Len(Records)
              /\ { writers[w].key : w \in Writers } = keys
              /\ result = "true"

\* a finished run with all four flags set: only mapped sinks, for the
\* mapped and the unmapped record of its input
C23_Witness ==
    /\ pc = "done"
    /\ settings.IsSplittingMapped /\ settings.IsSplittingPaired
    /\ settings.IsSplittingReference /\ settings.IsSplittingTag
    /\ source.opens
    /\ { writers[w].key : w \in Writers } = {TRUE, FALSE}
    /\ \A w \in Writers :
          HasTokenAfter(writers[w].filename, Len(m_outputFilenameStub),
                        {SPLIT_MAPPED_TOKEN, SPLIT_UNMAPPED_TOKEN})
    /\ exitStatus = 0

----------------------------------------------------------------------------
(* C24 *)

\* teardown has started: some sink has been closed
SomeSinkClosed == \E w \in Writers : writers[w].closes > 0

\* the clean-up is entered only at the end of the source, and a sink is
\* closed only there or after
TeardownAfterLastRecord ==
    /\ pc = "cleanup" => readerPos = Len(Records)
    /\ SomeSinkClosed =>
          /\ readerPos = Len(Records)
          /\ pc \in {"cleanup", "returned", "done", "destroyed"}

\* a step taken once a sink is closed pulls no record, opens no sink and
\* appends no record to any sink
NoUseAfterTeardown ==
    SomeSinkClosed =>
        /\ readerPos' = readerPos
        /\ Len(writers') = Len(writers)
        /\ outputFiles' = outputFiles
        /\ \A w \in Writers : writers'[w].saved = writers[w].saved

\* C24: in every run teardown starts only after the last record was pulled
\* from the source, and once any sink has been closed no record is appended
\* to any sink, no record is pulled and no sink is opened for the rest of
\* the run.
C24_NoUseAfterTeardown == [](TeardownAfterLastRecord) /\ [][NoUseAfterTeardown]_vars

\* a run in its clean-up with the first of two sinks closed and the second
\* still open, after an input of MaxLen records
C24_Witness ==
    /\ pc = "cleanup"
    /\ Len(Records) = MaxLen
    /\ readerPos = MaxLen
    /\ Len(writers) = 2
    /\ \E w \in Writers : writers[w].closes = 1
    /\ \E w \in Writers : writers[w].closes = 0

====
